---- MODULE Spec2Model ----
(***************************************************************************)
(* Model of helm-drift-detect: HelmDriftDetect.Run and HelmActionClient of *)
(* cmd/drift.go, and the namespace scan findReleaseStorageNamespace of the *)
(* listing in README.md.                                                   *)
(*                                                                         *)
(* Go values are represented as follows.                                   *)
(*   pointer / optional  : <<>> for nil, <<v>> for a pointer to v          *)
(*   error               : the chain of messages, outermost first; <<>> is *)
(*                         the nil error, Tail(e) is what e wraps (%w)     *)
(*   format string       : the sequence of its literal pieces and verbs    *)
(*   interface{} value   : a string; NilValue is the nil interface         *)
(***************************************************************************)
EXTENDS Integers, Sequences, FiniteSets, TLC

(*************************** bounds of the model ***************************)
MaxRuns == 2
MaxEntries == 2
MaxPatch == 2
MaxNamespaces == 2

(******************************* formatting ********************************)
Verbs == {"%s", "%d", "%v", "%w"}

RECURSIVE Sprintf(_, _)
\* fmt.Sprintf: literal pieces are copied, every verb consumes the next
\* argument; %d prints an integer in decimal, %s and %v print a string as is.
Sprintf(format, args) ==
    IF format = <<>> THEN ""
    ELSE IF Head(format) \in Verbs
         THEN (IF Head(format) = "%d" THEN ToString(Head(args)) ELSE Head(args))
                 \o Sprintf(Tail(format), Tail(args))
         ELSE Head(format) \o Sprintf(Tail(format), args)

\* Errorf with %v in the place of %w: the message alone, wrapping nothing
ErrorfWithoutWrap(format, args, inner) ==
    <<Sprintf(format, Append(args, inner[1]))>>

\* fmt.Errorf with a trailing %w: the new message, wrapping inner.
\* inner is the last argument; its Error() text is inner[1].
Errorf(format, args, inner) ==
    <<Sprintf(format, Append(args, inner[1]))>> \o inner

\* errors.New / an error produced by a library
NewError(msg) == <<msg>>

NoError == <<>>

(********************* the values the model draws from *********************)
\* Run's constants (drift.go 127-130) and the controller name (drift.go 156)
indent == "    "
newline == "\n"
FieldManager == "helm-controller"

\* what the caller passes to Run
ReleaseNames == {"foo", "x"}
Namespaces == {"bar", "default"}

\* jsondiff.DiffType
DiffTypeCreate == "create"
DiffTypeUpdate == "update"
DiffTypeExclude == "exclude"
DiffTypeNone == "none"

\* the nil interface{} of a PatchOperation without a value
NilValue == "<nil>"

PathRequests == "/spec/template/spec/containers/0/resources/requests"
PathReplicas == "/spec/replicas"
PathTemplate == "/spec/template"

OpReplace == [Type |-> "replace", Path |-> PathRequests,
              Value |-> "map[cpu:500m memory:256Mi]"]
OpRemove == [Type |-> "remove", Path |-> PathReplicas, Value |-> NilValue]
Ops == {OpReplace, OpRemove}

SeqsUpTo(S, n) == UNION {[1..k -> S] : k \in 0..n}

Patches == SeqsUpTo(Ops, MaxPatch)

ObjDeployment == [Kind |-> "Deployment", Name |-> "descheduler"]
ObjConfigMap == [Kind |-> "ConfigMap", Name |-> "cfg"]
Objects == {ObjDeployment, ObjConfigMap}

Entry(type, obj, patch) ==
    [Type |-> type, Kind |-> obj.Kind, Name |-> obj.Name, Patch |-> patch]

\* jsondiff.Diff values: created entries normally carry no patch, but the
\* renderer is also given created entries that do
DiffEntries ==
    {Entry(DiffTypeUpdate, o, p) : o \in Objects, p \in Patches}
    \cup {Entry(DiffTypeCreate, o, p) :
            o \in Objects, p \in {q \in Patches : Len(q) <= 1}}
    \cup {Entry(DiffTypeExclude, ObjDeployment, <<>>),
          Entry(DiffTypeNone, ObjConfigMap, <<>>)}

DiffSets == SeqsUpTo(DiffEntries, MaxEntries)

\* v2.IgnoreRule: Paths, and an optional Target selector
RuleTemplate == [Paths |-> <<PathTemplate>>, Target |-> <<ObjDeployment>>]
RuleConfigMap == [Paths |-> <<>>, Target |-> <<ObjConfigMap>>]
IgnoreLists ==
    {<<>>, <<RuleTemplate>>, <<RuleConfigMap>>,
     <<RuleTemplate, RuleConfigMap>>, <<RuleConfigMap, RuleTemplate>>}

\* v2.HelmRelease, the fields of Spec that Run reads
HelmReleases ==
    [ReleaseName : {"", "rel"},
     StorageNamespace : {"", "store"},
     DriftDetection : {<<>>} \cup {<<[Ignore |-> il]>> : il \in IgnoreLists}]

\* what the cluster can differ in from the manifest, before ignore rules
ClusterDrifts ==
    {<<>>,
     <<Entry(DiffTypeUpdate, ObjDeployment, <<OpReplace>>)>>,
     <<Entry(DiffTypeCreate, ObjConfigMap, <<>>),
       Entry(DiffTypeUpdate, ObjDeployment, <<OpRemove, OpReplace>>)>>,
     <<Entry(DiffTypeExclude, ObjDeployment, <<>>)>>}

(***************** collaborators outside the repository *******************)
\* what the cluster API can answer to the HelmRelease GET (drift.go 85-98)
GetHelmReleaseReplies ==
    {[rawErr |-> NewError("helmreleases.helm.toolkit.fluxcd.io not found"),
      jsonErr |-> NoError, obj |-> <<>>],
     [rawErr |-> NoError, jsonErr |-> NewError("unexpected end of JSON input"),
      obj |-> <<>>]}
    \cup {[rawErr |-> NoError, jsonErr |-> NoError, obj |-> <<hr>>] :
            hr \in HelmReleases}

\* what helmaction.Configuration.Init can return (drift.go 77)
InitReplies == {NoError, NewError("unable to instantiate SQL driver")}

\* what the release storage can answer to action.LastRelease (drift.go 107):
\* not found, or the last revision
LastReleaseReplies ==
    {[err |-> NewError("release: not found"), version |-> 0],
     [err |-> NoError, version |-> 1],
     [err |-> NoError, version |-> 2]}

\* what action.Diff can answer (drift.go 111): an access error, or the drift
DiffReplies ==
    {[err |-> NewError("deployments.apps is forbidden"), drift |-> <<>>]}
    \cup {[err |-> NoError, drift |-> d] : d \in ClusterDrifts}

\* JSON pointer -> its reference tokens, for the pointers of the model
PointerTokens(p) ==
    CASE p = PathRequests ->
           <<"spec", "template", "spec", "containers", "0", "resources", "requests">>
      [] p = PathReplicas -> <<"spec", "replicas">>
      [] p = PathTemplate -> <<"spec", "template">>

IsPrefix(s, t) == Len(s) <= Len(t) /\ SubSeq(t, 1, Len(s)) = s

\* an ignore rule applies to an object when it has no target or its target
\* selects the object
RuleSelects(rule, d) ==
    \/ rule.Target = <<>>
    \/ rule.Target[1] = [Kind |-> d.Kind, Name |-> d.Name]

\* the rule excludes the path: the path is one of the rule's or below one
RuleIgnoresPath(rule, path) ==
    \E i \in 1..Len(rule.Paths) :
        IsPrefix(PointerTokens(rule.Paths[i]), PointerTokens(path))

\* the entry after the ignore rules: <<>> when nothing of it remains
IgnoreEntry(d, rules) ==
    LET sel == {i \in 1..Len(rules) : RuleSelects(rules[i], d)}
        kept == SelectSeq(d.Patch,
                   LAMBDA op : \A i \in sel : ~RuleIgnoresPath(rules[i], op.Path))
    IN  IF \E i \in sel : rules[i].Paths = <<>> THEN <<>>
        ELSE IF d.Type = DiffTypeUpdate /\ kept = <<>> THEN <<>>
        ELSE <<[d EXCEPT !.Patch = kept]>>

RECURSIVE IgnoreFilter(_, _)
\* action.Diff's use of the ignore rules: the drift without what they exclude
IgnoreFilter(drift, rules) ==
    IF drift = <<>> THEN <<>>
    ELSE IgnoreEntry(Head(drift), rules) \o IgnoreFilter(Tail(drift), rules)

\* jsondiff.DiffSet.HasChanges
HasChanges(diffSet) ==
    \E i \in 1..Len(diffSet) : diffSet[i].Type \in {DiffTypeCreate, DiffTypeUpdate}

(**************************** HelmActionClient *****************************)
\* getActionConfig (drift.go 71-82): the client's configuration after the
\* call, and the error returned
getActionConfig(cfg, storageNamespace, initErr) ==
    IF cfg # <<>>
    THEN [cfg |-> cfg, err |-> NoError]
    ELSE [cfg |-> <<[namespace |-> storageNamespace,
                     initialised |-> (initErr = NoError)]>>,
          err |-> initErr]

\* action.LastRelease on a configuration: a configuration whose Init failed
\* has no release storage, and reading it is a nil dereference
LastRelease(cfg, name, reply) ==
    IF ~cfg[1].initialised
    THEN [panic |-> TRUE, release |-> <<>>, err |-> NoError]
    ELSE IF reply.err # NoError
    THEN [panic |-> FALSE, release |-> <<>>, err |-> reply.err]
    ELSE [panic |-> FALSE,
          release |-> <<[Name |-> name, Namespace |-> cfg[1].namespace,
                         Version |-> reply.version]>>,
          err |-> NoError]

\* HelmActionClient.GetHelmRelease (drift.go 84-101)
GetHelmRelease(name, ns, reply) ==
    IF reply.rawErr # NoError
    THEN [obj |-> <<>>,
          err |-> Errorf(<<"failed to get HelmRelease ", "%s", "/", "%s", ": ", "%w">>,
                         <<ns, name>>, reply.rawErr)]
    ELSE IF reply.jsonErr # NoError
    THEN [obj |-> <<>>,
          err |-> Errorf(<<"failed to unmarshal HelmRelease: ", "%w">>,
                         <<>>, reply.jsonErr)]
    ELSE [obj |-> reply.obj, err |-> NoError]

\* HelmActionClient.GetRelease (drift.go 103-108). cfg is the client's
\* configuration after the call, used the one handed to action.LastRelease
GetRelease(cfg, name, storageNs, initErr, reply) ==
    LET c == getActionConfig(cfg, storageNs, initErr)
        r == LastRelease(c.cfg, name, reply)
    IN  IF c.err # NoError
        THEN [cfg |-> c.cfg, used |-> <<>>, panic |-> FALSE, release |-> <<>>,
              err |-> Errorf(<<"failed to initialize action configuration: ", "%w">>,
                             <<>>, c.err)]
        ELSE [cfg |-> c.cfg, used |-> c.cfg, panic |-> r.panic,
              release |-> r.release, err |-> r.err]

\* action.Diff: the drift of the release's objects, less the ignore rules
Diff(cfg, rel, controller, rules, reply) ==
    IF reply.err # NoError
    THEN [diffSet |-> <<>>, err |-> reply.err]
    ELSE [diffSet |-> IgnoreFilter(reply.drift, rules), err |-> NoError]

\* DiffRelease that does not hand the ignore rules on
DiffReleaseWithoutRules(cfg, rel, controller, rules, reply) ==
    Diff(cfg, rel, controller, <<>>, reply)

\* HelmActionClient.DiffRelease (drift.go 110-112)
DiffRelease(cfg, rel, controller, rules, reply) ==
    Diff(cfg, rel, controller, rules, reply)

(***************************** HelmDriftDetect *****************************)
\* Logger.Infof(format, args...) as the sink receives it
Infof(format, args) == [format |-> format, args |-> args]

\* the text of a logged line (LogrusAdapter.Format prints the message only)
Text(line) == Sprintf(line.format, line.args)

DetectedFmt == <<"Detected drift in HelmRelease ", "%s", "/", "%s", ":", "%s">>
ResourceFmt == <<"%s", "%d", " - Resource: ", "%s", "/", "%s", "%s">>
RemovedFmt == <<"%s", "Reason: removed", "%s">>
ChangedFmt == <<"%s", "Reason: changed", "%s">>
PathFmt == <<"%s", "%d", " - Path: ", "%s", "%s">>
RecoveryFmt == <<"%s", "Recovery Operation: ", "%s", "%s">>
OriginalFmt == <<"%s", "Original Value: ", "%v", "%s">>
NoDriftFmt == <<"No drift detected in HelmRelease ", "%s", "/", "%s", "%s">>

\* drift.go 137-139
ResolveReleaseName(hr, name) ==
    IF hr.ReleaseName # "" THEN hr.ReleaseName ELSE name

\* the storage namespace overridden only together with the release name
ResolveStorageNamespaceWithName(hr, ns) ==
    IF hr.ReleaseName # "" THEN hr.StorageNamespace ELSE ns

\* drift.go 141-144
ResolveStorageNamespace(hr, ns) ==
    IF hr.StorageNamespace # "" THEN hr.StorageNamespace ELSE ns

\* the ignore rules left out
IgnoreRulesOfNone(hr) == <<>>

\* drift.go 151-154
IgnoreRulesOf(hr) ==
    IF hr.DriftDetection # <<>> THEN hr.DriftDetection[1].Ignore ELSE <<>>

\* the operation's lines without the test for a nil value
RenderOpAlwaysValue(p, j) ==
    <<Infof(PathFmt, <<indent, j + 1, p.Path, newline>>),
      Infof(RecoveryFmt, <<indent \o indent, p.Type, newline>>),
      Infof(OriginalFmt, <<indent \o indent, p.Value, newline>>)>>

\* one patch operation's lines, p the j-th of its entry counted from 0
\* (drift.go 174-178)
RenderOp(p, j) ==
    <<Infof(PathFmt, <<indent, j + 1, p.Path, newline>>),
      Infof(RecoveryFmt, <<indent \o indent, p.Type, newline>>)>>
    \o (IF p.Value # NilValue
        THEN <<Infof(OriginalFmt, <<indent \o indent, p.Value, newline>>)>>
        ELSE <<>>)

RECURSIVE RenderPatch(_, _)
\* the loop over d.Patch (drift.go 173-179), from index j
RenderPatch(patch, j) ==
    IF j >= Len(patch) THEN <<>>
    ELSE RenderOp(patch[j + 1], j) \o RenderPatch(patch, j + 1)

\* the counter without the i++ of the created case
NextIndexUpdatedOnly(d, i) ==
    IF d.Type = DiffTypeUpdate THEN i + 1 ELSE i

\* the counter after the entry: i++ in the two cases of the switch
\* (drift.go 169, 180)
NextIndex(d, i) ==
    IF d.Type \in {DiffTypeCreate, DiffTypeUpdate} THEN i + 1 ELSE i

\* the switch on d.Type for one entry, the counter being i (drift.go 165-181)
RenderEntry(d, i) ==
    CASE d.Type = DiffTypeCreate ->
           <<Infof(ResourceFmt, <<newline, i, d.Kind, d.Name, newline>>),
             Infof(RemovedFmt, <<indent, newline>>)>>
      [] d.Type = DiffTypeUpdate ->
           <<Infof(ResourceFmt, <<newline, i, d.Kind, d.Name, newline>>),
             Infof(ChangedFmt, <<indent, newline>>)>>
           \o RenderPatch(d.Patch, 0)
      [] OTHER -> <<>>

RECURSIVE RenderEntries(_, _)
\* the loop over the diff set (drift.go 163-182), the counter being i
RenderEntries(ds, i) ==
    IF ds = <<>> THEN <<>>
    ELSE RenderEntry(Head(ds), i)
           \o RenderEntries(Tail(ds), NextIndex(Head(ds), i))

\* the report with the name and the namespace of the last line exchanged
RenderExchanged(ds, ns, name) ==
    IF HasChanges(ds)
    THEN <<Infof(DetectedFmt, <<ns, name, newline>>)>> \o RenderEntries(ds, 1)
    ELSE <<Infof(NoDriftFmt, <<name, ns, newline>>)>>

\* the report of Run (drift.go 161-185): the Infof calls, in order
Render(ds, ns, name) ==
    IF HasChanges(ds)
    THEN <<Infof(DetectedFmt, <<ns, name, newline>>)>> \o RenderEntries(ds, 1)
    ELSE <<Infof(NoDriftFmt, <<ns, name, newline>>)>>

(************* the namespace scan of the README's client ******************)
\* strings are sequences of characters here, for strings.HasPrefix
HelmPrefix ==
    <<"s", "h", ".", "h", "e", "l", "m", ".", "r", "e", "l", "e", "a", "s", "e",
      ".", "v", "1", ".">>

RECURSIVE Str(_)
\* the Go string of a sequence of characters
Str(chars) == IF chars = <<>> THEN "" ELSE Head(chars) \o Str(Tail(chars))

\* the prefix without the ".v" that ends the release name
SecretPrefixOpen(name) == HelmPrefix \o name

\* fmt.Sprintf("sh.helm.release.v1.%s.v", releaseName) (README.md 129)
SecretPrefix(name) == HelmPrefix \o name \o <<".", "v">>

\* strings.HasPrefix (README.md 137)
HasPrefix(s, prefix) ==
    Len(prefix) <= Len(s) /\ \A i \in 1..Len(prefix) : s[i] = prefix[i]

\* the releases looked for, and the secrets a namespace can hold: the storage
\* secret of revision 1 of a release, and a secret that is no release's
ScanNames == {<<"x">>, <<"y">>}
StorageSecret(name) == HelmPrefix \o name \o <<".", "v", "1">>
TokenSecret == <<"t", "o", "k", "e", "n">>
SecretLists ==
    {<<>>,
     <<TokenSecret, StorageSecret(<<"x">>)>>,
     <<StorageSecret(<<"y">>)>>,
     <<StorageSecret(<<"x", "y">>)>>}
NamespaceNames == {"bar", "kube-system", "store"}
Forbidden == NewError("secrets is forbidden")

\* a namespace of the cluster: its name and what listing its secrets answers
ClusterNamespaces ==
    [Name : NamespaceNames, listErr : {NoError}, secrets : SecretLists]
    \cup [Name : NamespaceNames, listErr : {Forbidden}, secrets : {<<>>}]

\* what listing the namespaces answers: an error, or namespaces of
\* different names
Clusters ==
    {[listErr |-> NewError("namespaces is forbidden"), items |-> <<>>]}
    \cup {[listErr |-> NoError, items |-> it] :
            it \in {s \in SeqsUpTo(ClusterNamespaces, MaxNamespaces) :
                      \A i, j \in 1..Len(s) : s[i].Name = s[j].Name => i = j}}

RECURSIVE ScanFrom(_, _, _)
\* the loop over namespaces.Items from the k-th (README.md 131-143)
ScanFrom(items, k, name) ==
    IF k > Len(items)
    THEN [ns |-> "",
          err |-> NewError(Sprintf(
                    <<"helm release storage not found for release ", "%s",
                      " in any namespace">>, <<Str(name)>>))]
    ELSE IF items[k].listErr # NoError
    THEN [ns |-> "",
          err |-> Errorf(<<"failed to list secrets in namespace ", "%s", ": ", "%w">>,
                         <<items[k].Name>>, items[k].listErr)]
    ELSE IF \E i \in 1..Len(items[k].secrets) :
                HasPrefix(items[k].secrets[i], SecretPrefix(name))
    THEN [ns |-> items[k].Name, err |-> NoError]
    ELSE ScanFrom(items, k + 1, name)

\* findReleaseStorageNamespace (README.md 123-144)
findReleaseStorageNamespace(cluster, name) ==
    IF cluster.listErr # NoError
    THEN [ns |-> "",
          err |-> Errorf(<<"failed to list namespaces: ", "%w">>,
                         <<>>, cluster.listErr)]
    ELSE ScanFrom(cluster.items, 1, name)

(********************************* state ***********************************)
VARIABLES
    pc,                \* where Run is: idle, GetHelmRelease, GetRelease,
                       \* DiffRelease, Report, done (returned), panic
    runs,              \* the calls of Run so far
    runArgs,           \* the arguments Run was called with
    releaseName,       \* Run's releaseName, rebound at drift.go 138
    namespace,         \* Run's namespace
    storageNamespace,  \* Run's storageNamespace
    helmRelease,       \* Run's helmRelease
    release,           \* Run's release
    ignoreRules,       \* Run's ignoreRules
    diffSet,           \* Run's diffSet
    err,               \* the error Run returned
    calls,             \* the HelmClient calls of this Run, in order
    logs,              \* the Logger.Infof calls of this Run, in order
    actionConfig,      \* HelmActionClient.actionConfig
    lastReleaseConfig, \* the configuration this Run's GetRelease handed to
                       \* action.LastRelease
    drift,             \* the cluster drift action.Diff saw in this Run
    scan               \* the running findReleaseStorageNamespace call

vars ==
    <<pc, runs, runArgs, releaseName, namespace, storageNamespace, helmRelease,
      release, ignoreRules, diffSet, err, calls, logs, actionConfig,
      lastReleaseConfig, drift, scan>>

locals ==
    <<releaseName, namespace, storageNamespace, helmRelease, release,
      ignoreRules, diffSet>>

\* a HelmClient call as the client sees it: what it was given, and what it
\* returned, if it returned
Call(fn, args, result, e, returned) ==
    [fn |-> fn, args |-> args, result |-> result, err |-> e,
     returned |-> returned]

\* the call returned without an error
Ok(call) == call.returned /\ call.err = NoError

\* Run going on after an error
ReturnOrGoOn(e, next) == next

\* "if err != nil { return ... }": where Run is after a call that returned e
\* (drift.go 133-135, 147-149, 157-159)
ReturnOr(e, next) == IF e # NoError THEN "done" ELSE next

Init ==
    /\ pc = "idle"
    /\ runs = 0
    /\ runArgs = [releaseName |-> "", namespace |-> ""]
    /\ releaseName = ""
    /\ namespace = ""
    /\ storageNamespace = ""
    /\ helmRelease = <<>>
    /\ release = <<>>
    /\ ignoreRules = <<>>
    /\ diffSet = <<>>
    /\ err = NoError
    /\ calls = <<>>
    /\ logs = <<>>
    /\ actionConfig = <<>>
    /\ lastReleaseConfig = <<>>
    /\ drift = <<>>
    /\ scan = <<>>

(******************************** actions **********************************)
\* Run is called (drift.go 126): a first call, or another one on the same
\* HelmDriftDetect after the previous one returned
RunCall(name, ns) ==
    /\ pc \in {"idle", "done"}
    /\ scan = <<>>
    /\ runs < MaxRuns
    /\ runs' = runs + 1
    /\ runArgs' = [releaseName |-> name, namespace |-> ns]
    /\ releaseName' = name
    /\ namespace' = ns
    /\ storageNamespace' = ""
    /\ helmRelease' = <<>>
    /\ release' = <<>>
    /\ ignoreRules' = <<>>
    /\ diffSet' = <<>>
    /\ err' = NoError
    /\ calls' = <<>>
    /\ logs' = <<>>
    /\ lastReleaseConfig' = <<>>
    /\ drift' = <<>>
    /\ pc' = "GetHelmRelease"
    /\ UNCHANGED <<actionConfig, scan>>

\* drift.go 132-144
RunGetHelmRelease ==
    /\ pc = "GetHelmRelease"
    /\ \E reply \in GetHelmReleaseReplies :
         LET r == GetHelmRelease(releaseName, namespace, reply)
         IN  /\ calls' = Append(calls, Call("GetHelmRelease",
                                 <<releaseName, namespace>>, r.obj, r.err, TRUE))
             /\ pc' = ReturnOr(r.err, "GetRelease")
             /\ IF r.err # NoError
                THEN /\ err' = Errorf(<<"failed to get HelmRelease ", "%s", "/",
                                        "%s", ": ", "%w">>,
                                      <<namespace, releaseName>>, r.err)
                     /\ UNCHANGED <<helmRelease, releaseName, storageNamespace>>
                ELSE /\ helmRelease' = r.obj
                     /\ releaseName' = ResolveReleaseName(r.obj[1], releaseName)
                     /\ storageNamespace' =
                            ResolveStorageNamespace(r.obj[1], namespace)
                     /\ err' = err
    /\ UNCHANGED <<runs, runArgs, namespace, release, ignoreRules, diffSet, logs,
                   actionConfig, lastReleaseConfig, drift, scan>>

\* drift.go 146-149
RunGetRelease ==
    /\ pc = "GetRelease"
    /\ \E initErr \in InitReplies, reply \in LastReleaseReplies :
         LET r == GetRelease(actionConfig, releaseName, storageNamespace,
                             initErr, reply)
         IN  /\ actionConfig' = r.cfg
             /\ lastReleaseConfig' = r.used
             /\ calls' = Append(calls, Call("GetRelease",
                                 <<releaseName, storageNamespace>>,
                                 r.release, r.err, ~r.panic))
             /\ pc' = IF r.panic THEN "panic" ELSE ReturnOr(r.err, "DiffRelease")
             /\ IF r.panic
                THEN UNCHANGED <<err, release>>
                ELSE IF r.err # NoError
                THEN /\ err' = Errorf(<<"failed to get Helm release ", "%s", ": ",
                                        "%w">>, <<releaseName>>, r.err)
                     /\ release' = release
                ELSE /\ release' = r.release
                     /\ err' = err
    /\ UNCHANGED <<runs, runArgs, releaseName, namespace, storageNamespace,
                   helmRelease, ignoreRules, diffSet, logs, drift, scan>>

\* drift.go 151-159
RunDiffRelease ==
    /\ pc = "DiffRelease"
    /\ \E reply \in DiffReplies :
         LET rules == IgnoreRulesOf(helmRelease[1])
             r == DiffRelease(actionConfig, release, FieldManager, rules, reply)
         IN  /\ ignoreRules' = rules
             /\ calls' = Append(calls, Call("DiffRelease",
                                 <<release, FieldManager, rules>>,
                                 r.diffSet, r.err, TRUE))
             /\ pc' = ReturnOr(r.err, "Report")
             /\ drift' = reply.drift
             /\ IF r.err # NoError
                THEN /\ err' = Errorf(<<"failed to detect drift: ", "%w">>,
                                      <<>>, r.err)
                     /\ diffSet' = diffSet
                ELSE /\ diffSet' = r.diffSet
                     /\ err' = err
    /\ UNCHANGED <<runs, runArgs, releaseName, namespace, storageNamespace,
                   helmRelease, release, logs, actionConfig, lastReleaseConfig,
                   scan>>

\* drift.go 161-186
RunReport ==
    /\ pc = "Report"
    /\ logs' = logs \o Render(diffSet, namespace, releaseName)
    /\ err' = NoError
    /\ pc' = "done"
    /\ UNCHANGED <<runs, runArgs, releaseName, namespace, storageNamespace,
                   helmRelease, release, ignoreRules, diffSet, calls,
                   actionConfig, lastReleaseConfig, drift, scan>>

\* findReleaseStorageNamespace is called on a cluster (README.md 123)
ScanCall ==
    /\ pc = "idle"
    /\ scan = <<>>
    /\ \E cluster \in Clusters, name \in ScanNames :
         scan' = <<[cluster |-> cluster, releaseName |-> name,
                    result |-> findReleaseStorageNamespace(cluster, name)]>>
    /\ UNCHANGED <<pc, runs, runArgs, locals, err, calls, logs, actionConfig,
                   lastReleaseConfig, drift>>

\* and returns
ScanReturn ==
    /\ scan # <<>>
    /\ scan' = <<>>
    /\ UNCHANGED <<pc, runs, runArgs, locals, err, calls, logs, actionConfig,
                   lastReleaseConfig, drift>>

Next ==
    \/ \E name \in ReleaseNames, ns \in Namespaces : RunCall(name, ns)
    \/ RunGetHelmRelease
    \/ RunGetRelease
    \/ RunDiffRelease
    \/ RunReport
    \/ ScanCall
    \/ ScanReturn

Spec == Init /\ [][Next]_vars

\* a HelmRelease that overrides nothing and has no drift detection settings
PlainHelmRelease ==
    [ReleaseName |-> "", StorageNamespace |-> "", DriftDetection |-> <<>>]

\* Run about to report: the three calls of a first Run have succeeded, for a
\* HelmRelease without overrides, and the diff set is any of DiffSets
InitReport ==
    /\ pc = "Report"
    /\ runs = 1
    /\ \E name \in ReleaseNames, ns \in Namespaces :
         LET rel == <<[Name |-> name, Namespace |-> ns, Version |-> 1]>>
             cfg == <<[namespace |-> ns, initialised |-> TRUE]>>
         IN  /\ runArgs = [releaseName |-> name, namespace |-> ns]
             /\ releaseName = name
             /\ namespace = ns
             /\ storageNamespace = ns
             /\ release = rel
             /\ actionConfig = cfg
             /\ lastReleaseConfig = cfg
             /\ diffSet \in DiffSets
             /\ calls =
                  <<Call("GetHelmRelease", <<name, ns>>, <<PlainHelmRelease>>,
                         NoError, TRUE),
                    Call("GetRelease", <<name, ns>>, rel, NoError, TRUE),
                    Call("DiffRelease", <<rel, FieldManager, <<>>>>, diffSet,
                         NoError, TRUE)>>
    /\ helmRelease = <<PlainHelmRelease>>
    /\ ignoreRules = <<>>
    /\ drift = diffSet
    /\ err = NoError
    /\ logs = <<>>
    /\ scan = <<>>

NextReport == RunReport

SpecReport == InitReport /\ [][NextReport]_vars

(******************************** claims ***********************************)
\* the functions of the calls made so far, in order
CallOrder == [i \in 1..Len(calls) |-> calls[i].fn]

RunOrder == <<"GetHelmRelease", "GetRelease", "DiffRelease">>

\* the HelmRelease this Run fetched
Fetched == calls[1].result[1]

\* C1: a collaborator call of Run that returns an error is the last call of
\* the Run, Run has then returned an error that wraps the call's error, and
\* nothing was logged; and Run returns nil only after GetHelmRelease,
\* GetRelease and DiffRelease have all succeeded.
C1_FailureAborts ==
    /\ \A i \in 1..Len(calls) :
         (calls[i].returned /\ calls[i].err # NoError) =>
            /\ i = Len(calls)
            /\ pc = "done"
            /\ err # NoError
            /\ Tail(err) = calls[i].err
            /\ logs = <<>>
    /\ (pc = "done" /\ err = NoError) =>
            /\ CallOrder = RunOrder
            /\ \A i \in 1..3 : Ok(calls[i])

\* C1 witness: GetRelease failed after GetHelmRelease succeeded
C1_Witness ==
    /\ pc = "done"
    /\ Len(calls) = 2
    /\ Ok(calls[1])
    /\ calls[2].err # NoError

\* C2: GetHelmRelease is called with the caller's name and namespace;
\* GetRelease is called with Spec.ReleaseName, or the caller's name when that
\* is empty, and with Spec.StorageNamespace, or the caller's namespace when
\* that is empty, each override on its own.
C2_ResolvedNameAndScope ==
    /\ Len(calls) >= 1 =>
         /\ calls[1].fn = "GetHelmRelease"
         /\ calls[1].args = <<runArgs.releaseName, runArgs.namespace>>
    /\ Len(calls) >= 2 =>
         /\ calls[2].fn = "GetRelease"
         /\ calls[2].args[1] =
              (IF Fetched.ReleaseName = "" THEN runArgs.releaseName
               ELSE Fetched.ReleaseName)
         /\ calls[2].args[2] =
              (IF Fetched.StorageNamespace = "" THEN runArgs.namespace
               ELSE Fetched.StorageNamespace)

\* C2 witness: only the storage namespace is overridden
C2_Witness ==
    /\ Len(calls) >= 2
    /\ Fetched.ReleaseName = ""
    /\ Fetched.StorageNamespace = "store"
    /\ calls[2].args = <<runArgs.releaseName, "store">>

C9_CallOrder ==
    /\ Len(calls) <= 3
    /\ CallOrder = SubSeq(RunOrder, 1, Len(calls))
    /\ \A i \in 1..Len(calls) : i < Len(calls) => Ok(calls[i])
    /\ Len(calls) = 3 => actionConfig # <<>>
    /\ logs # <<>> => (Len(calls) = 3 /\ Ok(calls[3]))
    /\ pc = "Report" => (Len(calls) = 3 /\ Ok(calls[3]) /\ logs = <<>>)

\* C9 witness: a Run that made the three calls and reported
C9_Witness ==
    /\ pc = "done"
    /\ CallOrder = RunOrder
    /\ logs # <<>>

\* C10: whenever getActionConfig returns nil, so that GetRelease hands the
\* client's configuration to action.LastRelease, that configuration has been
\* initialised successfully.
C10_ConfigInitialised ==
    lastReleaseConfig # <<>> => lastReleaseConfig[1].initialised

\* the Ignore list of the HelmRelease this Run fetched
FetchedIgnore ==
    IF Fetched.DriftDetection = <<>> THEN <<>>
    ELSE Fetched.DriftDetection[1].Ignore

\* the lines of the report that open a block, and the resources they name
ResourceLines == SelectSeq(logs, LAMBDA l : l.format = ResourceFmt)
ReportedResources ==
    [k \in 1..Len(ResourceLines) |->
        <<ResourceLines[k].args[3], ResourceLines[k].args[4]>>]

\* the paths the report lists, in order
PathLines == SelectSeq(logs, LAMBDA l : l.format = PathFmt)
ReportedPaths == [k \in 1..Len(PathLines) |-> PathLines[k].args[3]]

\* the created and updated entries of a diff set, and the resources they name
Changed(ds) ==
    SelectSeq(ds, LAMBDA d : d.Type \in {DiffTypeCreate, DiffTypeUpdate})
ResourcesOf(ds) ==
    [k \in 1..Len(Changed(ds)) |-> <<Changed(ds)[k].Kind, Changed(ds)[k].Name>>]

RECURSIVE UpdatedPaths(_)
\* the paths of the patch operations of the updated entries, in order
UpdatedPaths(ds) ==
    IF ds = <<>> THEN <<>>
    ELSE (IF Head(ds).Type = DiffTypeUpdate
          THEN [j \in 1..Len(Head(ds).Patch) |-> Head(ds).Patch[j].Path]
          ELSE <<>>) \o UpdatedPaths(Tail(ds))

\* Run returned nil
Succeeded == pc = "done" /\ err = NoError

ResolvedName ==
    IF Fetched.ReleaseName = "" THEN runArgs.releaseName
    ELSE Fetched.ReleaseName

\* C5, as claimed: without changes the report is the single line
\* "No drift detected in <scope>/<releaseName>" and nothing else.
C5_NoDriftLineAsClaimed ==
    (Succeeded /\ ~HasChanges(diffSet)) =>
        /\ Len(logs) = 1
        /\ Text(logs[1]) =
             "No drift detected in " \o runArgs.namespace \o "/" \o ResolvedName

\* C5, amended: without changes the report is the single line
\* "No drift detected in HelmRelease <namespace>/<releaseName>" and a newline,
\* the namespace being the caller's and the name the resolved release name;
\* for release foo in namespace bar it is
\* "No drift detected in HelmRelease bar/foo" and a newline.
C5_NoDriftLine ==
    (Succeeded /\ ~HasChanges(diffSet)) =>
        /\ Len(logs) = 1
        /\ Text(logs[1]) =
             "No drift detected in HelmRelease " \o runArgs.namespace \o "/"
                \o ResolvedName \o "\n"
        /\ (runArgs = [releaseName |-> "foo", namespace |-> "bar"]
              /\ Fetched.ReleaseName = "") =>
             Text(logs[1]) = "No drift detected in HelmRelease bar/foo\n"

\* C5 witness: release foo in namespace bar, no override, no changes
C5_Witness ==
    /\ Succeeded
    /\ ~HasChanges(diffSet)
    /\ runArgs = [releaseName |-> "foo", namespace |-> "bar"]
    /\ Fetched.ReleaseName = ""
    /\ Len(logs) = 1

\* the positions in the report of the lines that open a block, in order
IsResourceLine(p) == logs[p].format = ResourceFmt
BlockStart(k) ==
    CHOOSE p \in 1..Len(logs) :
        /\ IsResourceLine(p)
        /\ Cardinality({q \in 1..p : IsResourceLine(q)}) = k
\* the position after the k-th block
BlockEnd(k) ==
    IF k = Len(ResourceLines) THEN Len(logs) + 1 ELSE BlockStart(k + 1)
\* the lines of the k-th block after its Resource and Reason lines
BlockBody(k) == SubSeq(logs, BlockStart(k) + 2, BlockEnd(k) - 1)

\* C6: with changes, the report is the header line and then one block for
\* each created or updated entry, in the order of the diff set; the k-th
\* block is numbered k, names its entry's Kind/Name, and gives the reason
\* "removed" for a created entry and "changed" for an updated one. An entry
\* that is neither makes no block and takes no number.
C6_BlocksNumbered ==
    (Succeeded /\ HasChanges(diffSet)) =>
        /\ logs[1] = Infof(DetectedFmt, <<namespace, releaseName, "\n">>)
        /\ \A p \in 2..Len(logs) : logs[p].format # DetectedFmt
        /\ logs[2].format = ResourceFmt
        /\ Len(ResourceLines) = Len(Changed(diffSet))
        /\ \A k \in 1..Len(ResourceLines) :
             LET d == Changed(diffSet)[k]
                 p == BlockStart(k)
             IN  /\ logs[p].args[2] = k
                 /\ Text(logs[p]) =
                      "\n" \o ToString(k) \o " - Resource: " \o d.Kind \o "/"
                         \o d.Name \o "\n"
                 /\ Text(logs[p + 1]) =
                      (IF d.Type = DiffTypeCreate
                       THEN "    Reason: removed\n"
                       ELSE "    Reason: changed\n")
        /\ Cardinality({p \in 1..Len(logs) :
                          logs[p].format \in {RemovedFmt, ChangedFmt}})
             = Len(ResourceLines)

\* C6 witness: an entry that is neither created nor updated, then an
\* updated one, which is block 1
C6_Witness ==
    /\ Succeeded
    /\ Len(diffSet) = 2
    /\ diffSet[1].Type = DiffTypeExclude
    /\ diffSet[2].Type = DiffTypeUpdate
    /\ Len(ResourceLines) = 1

\* the lines of one patch operation, numbered j
OpLines(op, j) ==
    <<"    " \o ToString(j) \o " - Path: " \o op.Path \o "\n",
      "        Recovery Operation: " \o op.Type \o "\n">>
    \o (IF op.Value = NilValue THEN <<>>
        ELSE <<"        Original Value: " \o op.Value \o "\n">>)

\* C7: the block of an updated entry lists the entry's patch operations in
\* the order of its Patch, the j-th numbered j from 1 in every block, each as
\* a Path line, then a Recovery Operation line, then an Original Value line
\* exactly when the operation has a value; the block of a created entry lists
\* no patch operation, whatever its Patch.
C7_PatchOperationsListed ==
    (Succeeded /\ HasChanges(diffSet)) =>
        \A k \in 1..Len(ResourceLines) :
            LET d == Changed(diffSet)[k]
                body == BlockBody(k)
                text == [i \in 1..Len(body) |-> Text(body[i])]
                paths == {i \in 1..Len(body) : body[i].format = PathFmt}
                at(j) == CHOOSE i \in paths :
                            Cardinality({q \in paths : q <= i}) = j
            IN  IF d.Type = DiffTypeCreate THEN body = <<>>
                ELSE /\ Cardinality(paths) = Len(d.Patch)
                     /\ \A j \in 1..Len(d.Patch) :
                          /\ body[at(j)].args[2] = j
                          /\ SubSeq(text, at(j),
                                    at(j) + Len(OpLines(d.Patch[j], j)) - 1)
                               = OpLines(d.Patch[j], j)
                     /\ Len(body) =
                          2 * Len(d.Patch)
                          + Cardinality({j \in 1..Len(d.Patch) :
                                           d.Patch[j].Value # NilValue})

\* C7 witness: two updated entries of two operations each, in opposite
\* orders, one operation with a value and one without
C7_Witness ==
    /\ Succeeded
    /\ Len(diffSet) = 2
    /\ diffSet[1].Type = DiffTypeUpdate
    /\ diffSet[1].Patch = <<OpReplace, OpRemove>>
    /\ diffSet[2].Type = DiffTypeUpdate
    /\ diffSet[2].Patch = <<OpRemove, OpReplace>>
    /\ Len(PathLines) = 4

\* no secret of any namespace of the scanned cluster starts with the storage
\* prefix "sh.helm.release.v1.<name>.v" of the release looked for
NoStorageEntry(f) ==
    LET prefix == HelmPrefix \o f.releaseName \o <<".", "v">>
    IN  \A i \in 1..Len(f.cluster.items) :
          \A j \in 1..Len(f.cluster.items[i].secrets) :
            LET secret == f.cluster.items[i].secrets[j]
            IN  \/ Len(secret) < Len(prefix)
                \/ SubSeq(secret, 1, Len(prefix)) # prefix

\* every listing of the scan was answered
Listed(f) ==
    /\ f.cluster.listErr = NoError
    /\ \A i \in 1..Len(f.cluster.items) : f.cluster.items[i].listErr = NoError

====
